---- MODULE Spec2Model ----
(***************************************************************************)
(* Model of bowlerserver::DefaultBowlerComs<N>                             *)
(* (src/include/defaultBowlerComs.hpp): the packet registry (packets,      *)
(* reliableState, ensuredPackets), the frame loop and the receiver side of *)
(* the alternating-bit protocol in handlePacketReliable.                   *)
(***************************************************************************)
EXTENDS Integers, Sequences, FiniteSets, TLC

\* ------------------------------------------------------------ constants
\* Buffer format: <ID (1 byte)> <Seq Num (1 byte)> <ACK num (1 byte)> <Payload>.
HEADER_LENGTH == 3

\* Error return of every operation (declared in bowlerDeviceServerUtil.hpp).
BOWLER_ERROR == -1

\* Reserved id of the server management packet (serverManagementPacket.hpp).
SERVER_MANAGEMENT_PACKET_ID == 0

\* ------------------------------------------------------------ bounds
\* Frame length (the template parameter N; N >= HEADER_LENGTH + 1).
N == 5
\* Packet ids are 0..MaxId.
MaxId == 1
\* Longest ensured-packet queue.
MaxEnsured == 3
\* Longest recorded history of accepted frames and handler invocations.
MaxHist == 4
\* Frames the stop-and-wait sender has to deliver.
MaxFrames == 3
\* Frames in flight in each direction of the transport.
MaxInFlight == 2

Ids == 0..MaxId
\* Sequence-number bytes on the wire: 0, 1 and a value that is neither.
SeqBytes == {0, 1, 2}
\* Values of the inbound ack byte and of a payload byte.
AckBytes == {0, 1}
PayloadBytes == {0, 1}

\* ------------------------------------------------------------ state
VARIABLES
  packets,         \* std::map<uint8_t, shared_ptr<Packet>>: id -> handler
  reliableState,   \* std::map<uint8_t, states_t>: id -> waitForZero/waitForOne
  ensuredPackets,  \* std::vector<function<shared_ptr<Packet>()>>
  last,            \* history: what the last call read, invoked, wrote, returned
  accepted,        \* history: frames a reliable channel took as the awaited one
  events,          \* history: calls of event(), in order
  rx,              \* transport: frames in flight to the device
  tx,              \* transport: replies in flight to the peer
  snd              \* the peer: a stop-and-wait sender on one channel

coms == <<packets, reliableState, ensuredPackets, last>>
hist == <<accepted, events>>
net == <<rx, tx, snd>>
vars == <<packets, reliableState, ensuredPackets, last, accepted, events, rx, tx, snd>>

\* enum states_t { waitForZero, waitForOne }
waitForZero == "waitForZero"
waitForOne == "waitForOne"

\* A handler object, by what the registry reads of it: getId(), isReliable().
Packet == [id : Ids, reliable : BOOLEAN]

\* The handler the constructor registers; it asks for reliable transport.
ServerManagementPacket == [id |-> SERVER_MANAGEMENT_PACKET_ID, reliable |-> TRUE]

\* Frames: N bytes, 1-indexed here (byte k of the array is element k + 1).
Frame(id, seq, ack, b) ==
  [i \in 1..N |-> IF i = 1 THEN id ELSE IF i = 2 THEN seq ELSE IF i = 3 THEN ack ELSE b]

\* Inbound frames: any header, a request byte in every payload position.
Frames == {Frame(id, seq, ack, 1) : id \in Ids, seq \in SeqBytes, ack \in AckBytes}

getPacketId(idata) == idata[1]
getSeqNum(idata) == idata[2]
getAckNum(idata) == idata[3]
setAckNum(idata, iackNum) == [idata EXCEPT ![3] = iackNum]

\* std::fill(std::next(data.begin(), HEADER_LENGTH), data.end(), 0)
fillPayload(idata) ==
  [i \in 1..N |-> IF i > HEADER_LENGTH THEN 0 ELSE idata[i]]

\* The payload region of a frame.
payloadOf(idata) == [i \in 1..(N - HEADER_LENGTH) |-> idata[HEADER_LENGTH + i]]

\* event(idata.data() + HEADER_LENGTH): the handler rewrites the payload region
\* in place; the header bytes are out of its reach.
withPayload(idata, out) ==
  [i \in 1..N |-> IF i > HEADER_LENGTH THEN out[i - HEADER_LENGTH] ELSE idata[i]]

\* What a handler may leave in the payload region: a status byte in every position.
EventPayloads == {[i \in 1..(N - HEADER_LENGTH) |-> b] : b \in PayloadBytes}

\* What event() may return: 1, BOWLER_ERROR, or 2 (a disconnection was processed).
EventReturns == {1, BOWLER_ERROR, 2}

\* std::map::operator[]: the entry, value-initialised (waitForZero) when absent.
stateAt(rs, id) == IF id \in DOMAIN rs THEN rs[id] ELSE waitForZero

mapPut(m, k, v) == [i \in DOMAIN m \cup {k} |-> IF i = k THEN v ELSE m[i]]
mapErase(m, k) == [i \in DOMAIN m \ {k} |-> m[i]]

\* ------------------------------------------------------------ registry
\* Mutant: the RDT state is initialised before the id is looked up.
addPacket_reinit(pk, rs, ipacket) ==
  LET rs1 == IF ipacket.reliable THEN mapPut(rs, ipacket.id, waitForZero) ELSE rs
  IN IF ipacket.id \notin DOMAIN pk
       THEN [packets |-> mapPut(pk, ipacket.id, ipacket), reliableState |-> rs1, ret |-> 1]
       ELSE [packets |-> pk, reliableState |-> rs1, ret |-> BOWLER_ERROR]

\* Mutant: the RDT state is inserted only where the id has no entry yet, so an
\* entry left behind by an earlier registration is kept.
addPacket_keepsStale(pk, rs, ipacket) ==
  IF ipacket.id \notin DOMAIN pk
    THEN [packets |-> mapPut(pk, ipacket.id, ipacket),
          reliableState |-> IF ipacket.reliable /\ ipacket.id \notin DOMAIN rs
                              THEN mapPut(rs, ipacket.id, waitForZero)
                              ELSE rs,
          ret |-> 1]
    ELSE [packets |-> pk, reliableState |-> rs, ret |-> BOWLER_ERROR]

\* addPacket: [packets, reliableState, ret].
addPacket(pk, rs, ipacket) ==
  IF ipacket.id \notin DOMAIN pk
    THEN [packets |-> mapPut(pk, ipacket.id, ipacket),
          reliableState |-> IF ipacket.reliable
                              THEN mapPut(rs, ipacket.id, waitForZero)
                              ELSE rs,
          ret |-> 1]
    ELSE [packets |-> pk, reliableState |-> rs, ret |-> BOWLER_ERROR]

\* removePacket: packets.erase(iid); the new packets map.
removePacket(pk, iid) == mapErase(pk, iid)

\* `ids.reserve(packets.size() - 1)`: the subtraction is done in size_t, so on
\* an empty map it wraps to the largest size_t, which is above
\* vector::max_size(), and reserve throws std::length_error.
reserveFails(pk) == Cardinality(DOMAIN pk) - 1 < 0

\* The keys in the iteration order of std::map.
RECURSIVE ascending(_)
ascending(S) ==
  IF S = {}
    THEN <<>>
    ELSE LET m == CHOOSE x \in S : \A y \in S : x <= y
         IN <<m>> \o ascending(S \ {m})

getAllPacketIDs(pk) ==
  IF reserveFails(pk)
    THEN [threw |-> TRUE, ids |-> <<>>]
    ELSE [threw |-> FALSE,
          ids |-> ascending(DOMAIN pk \ {SERVER_MANAGEMENT_PACKET_ID})]

\* Mutant: the result of addPacket is ignored and the queue is drained to its end.
RECURSIVE addEnsuredPackets_continues(_, _, _, _)
addEnsuredPackets_continues(pk, rs, q, called) ==
  IF q = <<>>
    THEN [packets |-> pk, reliableState |-> rs, ret |-> 1, called |-> called]
    ELSE LET r == addPacket(pk, rs, Head(q))
         IN addEnsuredPackets_continues(r.packets, r.reliableState, Tail(q), called + 1)

\* addEnsuredPackets over the rest q of the queue, `called` factories invoked
\* so far: [packets, reliableState, ret, called].
RECURSIVE addEnsuredPackets(_, _, _, _)
addEnsuredPackets(pk, rs, q, called) ==
  IF q = <<>>
    THEN [packets |-> pk, reliableState |-> rs, ret |-> 1, called |-> called]
    ELSE LET r == addPacket(pk, rs, Head(q))
         IN IF r.ret = BOWLER_ERROR
              THEN [packets |-> r.packets, reliableState |-> r.reliableState,
                    ret |-> BOWLER_ERROR, called |-> called + 1]
              ELSE addEnsuredPackets(r.packets, r.reliableState, Tail(q), called + 1)

\* ------------------------------------------------------------ frame loop
\* Mutant: an unreliable channel takes only frames numbered 0 or 1 and drops
\* the others like a wrong packet.
handlePacketUnreliable_checksSeq(rs, id, idata, evOut) ==
  IF getSeqNum(idata) \in {0, 1}
    THEN [reliableState |-> rs, invoked |-> 1, wrote |-> <<withPayload(idata, evOut)>>]
    ELSE [reliableState |-> rs, invoked |-> 0, wrote |-> <<fillPayload(idata)>>]

\* handlePacketUnreliable: [reliableState, invoked, wrote].
handlePacketUnreliable(rs, id, idata, evOut) ==
  [reliableState |-> rs, invoked |-> 1, wrote |-> <<withPayload(idata, evOut)>>]

\* Mutant: the channel never leaves its starting state.
stateAfterZero_stays(id, eventError) == waitForZero

\* Mutant: a disconnection reported by any handler forces the starting state.
stateAfterZero_anyId(id, eventError) ==
  IF eventError = 2 THEN waitForZero ELSE waitForOne

\* The state after the awaited sequence-0 frame was handled.
stateAfterZero(id, eventError) ==
  IF id = SERVER_MANAGEMENT_PACKET_ID /\ eventError = 2
    THEN waitForZero
    ELSE waitForOne

\* Mutant: the channel keeps waiting for sequence number 1.
stateAfterOne_stays(id, eventError) == waitForOne

\* The state after the awaited sequence-1 frame was handled.
stateAfterOne(id, eventError) == waitForZero

\* Mutant: the wrong packet is answered with the awaited number, not the received one.
wrongPacketInZero_ack0(idata) == setAckNum(fillPayload(idata), 0)

\* "Wrong packet. Clear the payload and ACK 1." (in waitForZero)
wrongPacketInZero(idata) == setAckNum(fillPayload(idata), 1)

\* Mutant: the payload of the wrong packet is echoed.
wrongPacketInOne_keepsPayload(idata) == setAckNum(idata, 0)

\* Mutant: the wrong packet is answered with ACK 1.
wrongPacketInOne_ack1(idata) == setAckNum(fillPayload(idata), 1)

\* "Wrong packet. Clear the payload and ACK 0." (in waitForOne)
wrongPacketInOne(idata) == setAckNum(fillPayload(idata), 0)

\* handlePacketReliable: [reliableState, invoked, wrote].
handlePacketReliable(rs, id, idata, evRet, evOut) ==
  LET state == stateAt(rs, id)
  IN IF state = waitForZero
       THEN IF getSeqNum(idata) = 0
              THEN [reliableState |-> mapPut(rs, id, stateAfterZero(id, evRet)),
                    invoked |-> 1,
                    wrote |-> <<setAckNum(withPayload(idata, evOut), 0)>>]
              ELSE [reliableState |-> mapPut(rs, id, state),
                    invoked |-> 0,
                    wrote |-> <<wrongPacketInZero(idata)>>]
       ELSE IF getSeqNum(idata) = 1
              THEN [reliableState |-> mapPut(rs, id, stateAfterOne(id, evRet)),
                    invoked |-> 1,
                    wrote |-> <<setAckNum(withPayload(idata, evOut), 1)>>]
              ELSE [reliableState |-> mapPut(rs, id, state),
                    invoked |-> 0,
                    wrote |-> <<wrongPacketInOne(idata)>>]

\* Mutant: a frame for an unknown id is dropped without a reply.
unknownPacket_noReply(rs, idata, wrOk) ==
  [reliableState |-> rs, invoked |-> 0, wrote |-> <<>>, ret |-> BOWLER_ERROR]

\* Mutant: the call returns what the write returned.
unknownPacket_writeResult(rs, idata, wrOk) ==
  [reliableState |-> rs, invoked |-> 0,
   wrote |-> <<fillPayload(idata)>>, ret |-> IF wrOk THEN 1 ELSE BOWLER_ERROR]

\* The unknown-id branch of loop: [reliableState, invoked, wrote, ret].  The
\* outcome of the write is logged and the call fails either way.
unknownPacket(rs, idata, wrOk) ==
  [reliableState |-> rs, invoked |-> 0,
   wrote |-> <<fillPayload(idata)>>, ret |-> BOWLER_ERROR]

\* Mutant: a reliable channel whose reply could not be written goes back to the
\* state it had before the frame.
dispatch_rollsBack(pk, rs, idata, evRet, evOut, wrOk) ==
  LET id == getPacketId(idata)
  IN IF id \notin DOMAIN pk
       THEN unknownPacket(rs, idata, wrOk)
       ELSE LET h == IF pk[id].reliable
                       THEN handlePacketReliable(rs, id, idata, evRet, evOut)
                       ELSE handlePacketUnreliable(rs, id, idata, evOut)
            IN [reliableState |-> IF wrOk THEN h.reliableState ELSE rs,
                invoked |-> h.invoked, wrote |-> h.wrote, ret |-> 1]

\* Mutant: a disconnection handled on the server management channel puts every
\* channel back into the starting state.
dispatch_resetsAll(pk, rs, idata, evRet, evOut, wrOk) ==
  LET id == getPacketId(idata)
  IN IF id \notin DOMAIN pk
       THEN unknownPacket(rs, idata, wrOk)
       ELSE LET h == IF pk[id].reliable
                       THEN handlePacketReliable(rs, id, idata, evRet, evOut)
                       ELSE handlePacketUnreliable(rs, id, idata, evOut)
            IN [reliableState |->
                  IF id = SERVER_MANAGEMENT_PACKET_ID /\ h.invoked = 1 /\ evRet = 2
                    THEN [i \in DOMAIN h.reliableState |-> waitForZero]
                    ELSE h.reliableState,
                invoked |-> h.invoked, wrote |-> h.wrote, ret |-> 1]

\* loop, after a successful read of idata: [reliableState, invoked, wrote, ret].
dispatch(pk, rs, idata, evRet, evOut, wrOk) ==
  LET id == getPacketId(idata)
  IN IF id \notin DOMAIN pk
       THEN unknownPacket(rs, idata, wrOk)
       ELSE LET h == IF pk[id].reliable
                       THEN handlePacketReliable(rs, id, idata, evRet, evOut)
                       ELSE handlePacketUnreliable(rs, id, idata, evOut)
            IN [reliableState |-> h.reliableState, invoked |-> h.invoked,
                wrote |-> h.wrote, ret |-> 1]

\* The outcomes of server->isDataAvailable(isDataAvailable).
AvailOutcomes == {"data", "nodata", "wouldblock", "error"}

NoFrame == <<>>

\* `last` of a call that is not a loop call which read a frame.
Call(op, ret, id) ==
  [op |-> op, ret |-> ret, id |-> id, data |-> NoFrame, st |-> "none",
   evRet |-> 1, invoked |-> 0, wrote |-> <<>>, wrOk |-> TRUE, called |-> 0,
   avail |-> "none", readOk |-> TRUE, ids |-> <<>>, threw |-> FALSE]

\* What loop returns when it read no frame: there was no data, or the readiness
\* check or the read failed and the failure was logged.
loopWithoutFrame(avail, readOk) == 1

\* Whether loop() on idata reaches a call of event().
invokes(pk, rs, idata) == dispatch(pk, rs, idata, 1, payloadOf(idata), TRUE).invoked = 1

\* Whether idata carries the sequence number its reliable channel awaits.
awaited(pk, rs, idata) ==
  LET id == getPacketId(idata)
  IN /\ id \in DOMAIN pk
     /\ pk[id].reliable
     /\ getSeqNum(idata) = (IF stateAt(rs, id) = waitForZero THEN 0 ELSE 1)

\* The entries of a history that are about channel id.
onChannel(h, id) == SelectSeq(h, LAMBDA e : e.id = id)
offChannel(h, id) == SelectSeq(h, LAMBDA e : e.id # id)

\* ------------------------------------------------------------ actions
\* The constructor: the server management packet is added first.
Constructed ==
  LET r == addPacket(<<>>, <<>>, ServerManagementPacket)
  IN /\ packets = r.packets
     /\ reliableState = r.reliableState
     /\ ensuredPackets = <<>>
     /\ last = Call("new", r.ret, SERVER_MANAGEMENT_PACKET_ID)

NoSender == [id |-> SERVER_MANAGEMENT_PACKET_ID, bit |-> 0, acked |-> 0]

Init ==
  /\ Constructed
  /\ accepted = <<>>
  /\ events = <<>>
  /\ rx = <<>>
  /\ tx = <<>>
  /\ snd = NoSender

AddPacket(ipacket) ==
  LET r == addPacket(packets, reliableState, ipacket)
  IN /\ packets' = r.packets
     /\ reliableState' = r.reliableState
     /\ last' = [Call("addPacket", r.ret, ipacket.id)
                   EXCEPT !.st = IF ipacket.id \in DOMAIN reliableState
                                   THEN reliableState[ipacket.id]
                                   ELSE "none"]
     /\ UNCHANGED ensuredPackets

RemovePacket(iid) ==
  /\ packets' = removePacket(packets, iid)
  /\ last' = Call("removePacket", 1, iid)
  /\ UNCHANGED <<reliableState, ensuredPackets>>

GetAllPacketIDs ==
  LET r == getAllPacketIDs(packets)
  IN /\ last' = [Call("getAllPacketIDs", 1, 0)
                   EXCEPT !.ids = r.ids, !.threw = r.threw]
     /\ UNCHANGED <<packets, reliableState, ensuredPackets>>

AddEnsuredPacket(ipacket) ==
  /\ Len(ensuredPackets) < MaxEnsured
  /\ ensuredPackets' = Append(ensuredPackets, ipacket)
  /\ last' = Call("addEnsuredPacket", 1, ipacket.id)
  /\ UNCHANGED <<packets, reliableState>>

\* Whether the call before this one was an addEnsuredPackets that succeeded.
afterDrain == IF last.op = "addEnsuredPackets" /\ last.ret = 1 THEN "drained" ELSE "none"

\* Mutant: the factories that were invoked are taken off the queue.
AddEnsuredPackets_consumes ==
  LET r == addEnsuredPackets(packets, reliableState, ensuredPackets, 0)
  IN /\ packets' = r.packets
     /\ reliableState' = r.reliableState
     /\ last' = [Call("addEnsuredPackets", r.ret, 0)
                   EXCEPT !.called = r.called, !.st = afterDrain]
     /\ ensuredPackets' = SubSeq(ensuredPackets, r.called + 1, Len(ensuredPackets))

AddEnsuredPackets ==
  LET r == addEnsuredPackets(packets, reliableState, ensuredPackets, 0)
  IN /\ packets' = r.packets
     /\ reliableState' = r.reliableState
     /\ last' = [Call("addEnsuredPackets", r.ret, 0)
                   EXCEPT !.called = r.called, !.st = afterDrain]
     /\ UNCHANGED ensuredPackets

\* loop() when no frame is read: no data, a failed readiness check, a failed read.
LoopIdle(avail, readOk) ==
  /\ avail # "data" \/ ~readOk
  /\ avail # "data" => readOk
  /\ last' = [Call("loop", loopWithoutFrame(avail, readOk), 0)
                EXCEPT !.avail = avail, !.readOk = readOk]
  /\ UNCHANGED <<packets, reliableState, ensuredPackets>>

\* loop() when it reads idata; the handler (if invoked) returns evRet and leaves
\* evOut in the payload region; the write succeeds or not.
LoopFrame(idata, evRet, evOut, wrOk) ==
  LET id == getPacketId(idata)
      r == dispatch(packets, reliableState, idata, evRet, evOut, wrOk)
  IN /\ reliableState' = r.reliableState
     /\ last' = [op |-> "loop", ret |-> r.ret, id |-> id, data |-> idata,
                 st |-> IF id \in DOMAIN reliableState THEN reliableState[id] ELSE "none",
                 evRet |-> evRet, invoked |-> r.invoked, wrote |-> r.wrote,
                 wrOk |-> wrOk, called |-> 0,
                 avail |-> "data", readOk |-> TRUE, ids |-> <<>>, threw |-> FALSE]
     /\ UNCHANGED <<packets, ensuredPackets>>

\* loop() reads idata: whatever the handler it reaches may return and leave.
LoopRead(idata, wrOk) ==
  IF invokes(packets, reliableState, idata)
    THEN \E evRet \in EventReturns, evOut \in EventPayloads :
           LoopFrame(idata, evRet, evOut, wrOk)
    ELSE LoopFrame(idata, 1, payloadOf(idata), wrOk)

\* The histories a loop call on idata extends; they hold MaxHist entries.
Record(idata, evRet) ==
  LET id == getPacketId(idata)
      r == dispatch(packets, reliableState, idata, evRet, payloadOf(idata), TRUE)
  IN /\ awaited(packets, reliableState, idata) => Len(accepted) < MaxHist
     /\ r.invoked = 1 => Len(events) < MaxHist
     /\ accepted' = IF awaited(packets, reliableState, idata)
                      THEN Append(accepted, [id |-> id, seq |-> getSeqNum(idata),
                                             ack |-> getAckNum(r.wrote[1])])
                      ELSE accepted
     /\ events' = IF r.invoked = 1
                    THEN Append(events, [id |-> id, tag |-> idata[HEADER_LENGTH + 1],
                                         ret |-> evRet])
                    ELSE events

\* The dispatcher: registrations, deregistrations and loop calls on any frame.
Next ==
  \/ \E p \in Packet : AddPacket(p) /\ UNCHANGED <<hist, net>>
  \/ \E i \in Ids : RemovePacket(i) /\ UNCHANGED <<hist, net>>
  \/ GetAllPacketIDs /\ UNCHANGED <<hist, net>>
  \/ \E avail \in AvailOutcomes, readOk \in BOOLEAN :
       LoopIdle(avail, readOk) /\ UNCHANGED <<hist, net>>
  \/ \E idata \in Frames, wrOk \in BOOLEAN :
       LoopRead(idata, wrOk) /\ UNCHANGED <<hist, net>>

Spec == Init /\ [][Next]_vars

\* The registry with its ensured-packet queue.
NextEnsured ==
  \/ \E p \in Packet : AddPacket(p) /\ UNCHANGED <<hist, net>>
  \/ \E i \in Ids : RemovePacket(i) /\ UNCHANGED <<hist, net>>
  \/ GetAllPacketIDs /\ UNCHANGED <<hist, net>>
  \/ \E p \in Packet : AddEnsuredPacket(p) /\ UNCHANGED <<hist, net>>
  \/ AddEnsuredPackets /\ UNCHANGED <<hist, net>>

SpecEnsured == Init /\ [][NextEnsured]_vars

\* Every user id registered with a handler that asks for reliable transport.
ReliableUsers ==
  [i \in 1..MaxId |-> [id |-> (SERVER_MANAGEMENT_PACKET_ID + i) % (MaxId + 1),
                       reliable |-> TRUE]]

InitReliable ==
  LET c == addPacket(<<>>, <<>>, ServerManagementPacket)
      r == addEnsuredPackets(c.packets, c.reliableState, ReliableUsers, 0)
  IN /\ packets = r.packets
     /\ reliableState = r.reliableState
     /\ ensuredPackets = <<>>
     /\ last = Call("addPacket", r.ret, MaxId)
     /\ accepted = <<>>
     /\ events = <<>>
     /\ rx = <<>>
     /\ tx = <<>>

\* loop() on idata, with the histories and without `last`.
LoopHist(idata, evRet) ==
  LET r == dispatch(packets, reliableState, idata, evRet, payloadOf(idata), TRUE)
  IN /\ reliableState' = r.reliableState
     /\ Record(idata, evRet)
     /\ UNCHANGED <<packets, ensuredPackets, last>>

\* The dispatcher with the histories of its channels, every channel reliable.
NextHist ==
  \E idata \in Frames :
    IF invokes(packets, reliableState, idata)
      THEN \E evRet \in EventReturns : LoopHist(idata, evRet) /\ UNCHANGED net
      ELSE LoopHist(idata, 1) /\ UNCHANGED net

InitHist == InitReliable /\ snd = NoSender

SpecHist == InitHist /\ [][NextHist]_vars

\* ------------------------------------------------------------ the peer
\* A stop-and-wait sender on channel snd.id: frame number snd.acked + 1 goes
\* out with sequence bit snd.bit, again and again, until a reply whose ack
\* number is snd.bit comes back; then the bit flips.
Send ==
  /\ snd.acked < MaxFrames
  /\ Len(rx) < MaxInFlight
  /\ rx' = Append(rx, Frame(snd.id, snd.bit, 0, snd.acked + 1))
  /\ UNCHANGED <<coms, hist, tx, snd>>

RecvReply ==
  /\ tx # <<>>
  /\ tx' = Tail(tx)
  /\ snd' = IF snd.acked < MaxFrames /\ getAckNum(Head(tx)) = snd.bit
              THEN [snd EXCEPT !.acked = @ + 1, !.bit = 1 - @]
              ELSE snd
  /\ UNCHANGED <<coms, hist, rx>>

without(q, i) == [j \in 1..(Len(q) - 1) |-> IF j < i THEN q[j] ELSE q[j + 1]]

\* The transport loses a frame on its way in, or a reply on its way out.
LoseFrame == \E i \in 1..Len(rx) : rx' = without(rx, i) /\ UNCHANGED <<coms, hist, tx, snd>>
LoseReply == \E i \in 1..Len(tx) : tx' = without(tx, i) /\ UNCHANGED <<coms, hist, rx, snd>>

\* loop() reads the frame at the head of the transport; a reply that is written
\* goes out behind the replies in flight, one whose write fails is lost.  The
\* server management handler reports no disconnection in these runs.
LoopNet(evRet, wrOk) ==
  LET idata == Head(rx)
      r == dispatch(packets, reliableState, idata, evRet, payloadOf(idata), TRUE)
  IN /\ rx # <<>>
     /\ getPacketId(idata) = SERVER_MANAGEMENT_PACKET_ID => evRet # 2
     /\ r.invoked = 0 => evRet = 1
     /\ wrOk => Len(tx) < MaxInFlight
     /\ LoopHist(idata, evRet)
     /\ rx' = Tail(rx)
     /\ tx' = IF wrOk THEN tx \o r.wrote ELSE tx
     /\ UNCHANGED snd

NextARQ ==
  \/ Send
  \/ RecvReply
  \/ LoseFrame
  \/ LoseReply
  \/ \E evRet \in EventReturns, wrOk \in BOOLEAN : LoopNet(evRet, wrOk)

InitARQ == InitReliable /\ snd \in {[NoSender EXCEPT !.id = i] : i \in Ids}

SpecARQ == InitARQ /\ [][NextARQ]_vars

\* A history that keeps one entry per distinct event, so that it stays finite
\* when a frame is handled any number of times.
remember(h, e) == IF \E i \in 1..Len(h) : h[i] = e THEN h ELSE Append(h, e)

\* loop() reads the frame at the head of the transport, as in LoopNet, and the
\* server management handler may report a disconnection.
LoopSession(evRet, wrOk) ==
  LET idata == Head(rx)
      r == dispatch(packets, reliableState, idata, evRet, payloadOf(idata), TRUE)
  IN /\ rx # <<>>
     /\ r.invoked = 0 => evRet = 1
     /\ wrOk => Len(tx) < MaxInFlight
     /\ reliableState' = r.reliableState
     /\ events' = IF r.invoked = 1
                    THEN remember(events, [id |-> getPacketId(idata),
                                           tag |-> idata[HEADER_LENGTH + 1],
                                           ret |-> evRet])
                    ELSE events
     /\ UNCHANGED <<packets, ensuredPackets, last, accepted>>
     /\ rx' = Tail(rx)
     /\ tx' = IF wrOk THEN tx \o r.wrote ELSE tx
     /\ UNCHANGED snd

\* A loop call whose reply is written.
LoopReplies == \E evRet \in EventReturns : LoopSession(evRet, TRUE)

NextSession ==
  \/ Send
  \/ RecvReply
  \/ LoseFrame
  \/ LoseReply
  \/ \E evRet \in EventReturns, wrOk \in BOOLEAN : LoopSession(evRet, wrOk)

\* The sender keeps retransmitting; loop is called again and again and the
\* transport does not fail every write for ever; it does not lose every reply
\* for ever.
FairSession ==
  /\ WF_vars(Send)
  /\ SF_vars(LoopReplies)
  /\ SF_vars(RecvReply)

SpecSession == InitARQ /\ [][NextSession]_vars /\ FairSession

\* ------------------------------------------------------------ claims
\* What the last call was about.
lastRead == last.op = "loop" /\ last.data # NoFrame
lastKnown == lastRead /\ last.id \in DOMAIN packets
lastReliable == lastKnown /\ packets[last.id].reliable
lastSeq == getSeqNum(last.data)
lastReply == last.wrote[1]
zeroPayload(idata) == \A i \in (HEADER_LENGTH + 1)..N : idata[i] = 0

\* C1: with a stop-and-wait sender and a lossy FIFO transport, the handler is
\* invoked for the sender's frames in send order, never twice for one frame, and
\* once for every frame the sender counts as acknowledged.
C1_ExactlyOnce ==
  LET handled == onChannel(events, snd.id)
  IN /\ \A i \in 1..Len(handled) : handled[i].tag = i
     /\ snd.acked <= Len(handled)

\* C1 witness: every frame was acknowledged and handled.
C1_Witness ==
  snd.acked = MaxFrames /\ Len(onChannel(events, snd.id)) = MaxFrames

\* C2: a reliable channel in waitForZero that reads sequence number 0 invokes
\* the handler once, replies with ack 0 and moves to waitForOne, except that it
\* stays in waitForZero exactly when the id is the server management id and the
\* handler returned 2.
C2_AcceptZero ==
  (lastReliable /\ last.st = waitForZero /\ lastSeq = 0) =>
    /\ last.invoked = 1
    /\ Len(last.wrote) = 1
    /\ getAckNum(lastReply) = 0
    /\ (reliableState[last.id] = waitForZero) <=>
         (last.id = SERVER_MANAGEMENT_PACKET_ID /\ last.evRet = 2)
    /\ reliableState[last.id] \in {waitForZero, waitForOne}

\* C2 witness: another reliable handler returned 2 and its channel moved on.
C2_Witness ==
  /\ lastReliable /\ last.st = waitForZero /\ lastSeq = 0
  /\ last.id # SERVER_MANAGEMENT_PACKET_ID /\ last.evRet = 2
  /\ reliableState[last.id] = waitForOne

\* C3: a reliable channel that reads a sequence number other than the awaited
\* one does not invoke the handler, keeps its state and replies with an
\* all-zero payload.
C3_WrongPacket ==
  (lastReliable /\ \/ last.st = waitForZero /\ lastSeq # 0
                   \/ last.st = waitForOne /\ lastSeq # 1) =>
    /\ last.invoked = 0
    /\ reliableState[last.id] = last.st
    /\ Len(last.wrote) = 1
    /\ zeroPayload(lastReply)

\* C3 witness: a frame with sequence number 2 was rejected in waitForOne.
C3_Witness ==
  /\ lastReliable /\ last.st = waitForOne /\ lastSeq = 2
  /\ last.invoked = 0 /\ ~zeroPayload(last.data)

\* A reliable channel in waitForOne is about to read sequence number 0 again.
redelivered ==
  /\ last'.op = "loop" /\ last'.data # NoFrame
  /\ last'.id \in DOMAIN packets /\ packets[last'.id].reliable
  /\ last'.st = waitForOne /\ getSeqNum(last'.data) = 0

\* The frame the last call accepted from waitForZero is delivered once more.
deliveredTwice ==
  /\ lastReliable /\ last.st = waitForZero /\ lastSeq = 0 /\ last.invoked = 1
  /\ reliableState[last.id] = waitForOne
  /\ last'.op = "loop" /\ last'.data = last.data

\* What a re-delivery does, replying with ack number ack.
suppressed(ack) ==
  /\ last'.invoked = 0
  /\ Len(last'.wrote) = 1
  /\ getAckNum(last'.wrote[1]) = ack
  /\ zeroPayload(last'.wrote[1])
  /\ reliableState'[last'.id] = waitForOne

C5_AckOfWrongPacket ==
  (lastReliable /\ \/ last.st = waitForZero /\ lastSeq = 1
                   \/ last.st = waitForOne /\ lastSeq = 0) =>
    /\ last.invoked = 0
    /\ getAckNum(lastReply) = lastSeq

\* C5 witness: sequence number 1 was rejected in waitForZero; the frame came in
\* with ack byte 0 and went out with ack byte 1.
C5_Witness ==
  /\ lastReliable /\ last.st = waitForZero /\ lastSeq = 1
  /\ getAckNum(last.data) = 0 /\ getAckNum(lastReply) = 1

\* C6: on a reliable channel whose handler never returned 2, the accepted
\* frames carry sequence numbers 0,1,0,1,..., each was acknowledged with its own
\* sequence number, the handler ran once per accepted frame, and the channel is
\* in waitForZero exactly when their number is even; and whatever the handler
\* returned, a channel whose latest accepted frame had sequence number 1 is in
\* waitForZero.
C6_Alternation ==
  \A id \in DOMAIN packets :
    LET acc == onChannel(accepted, id)
        evs == onChannel(events, id)
    IN packets[id].reliable =>
         /\ (acc # <<>> /\ acc[Len(acc)].seq = 1) => reliableState[id] = waitForZero
         /\ (\A i \in 1..Len(evs) : evs[i].ret # 2) =>
              /\ \A i \in 1..Len(acc) : acc[i].seq = (i - 1) % 2 /\ acc[i].ack = acc[i].seq
              /\ Len(evs) = Len(acc)
              /\ (reliableState[id] = waitForZero) <=> (Len(acc) % 2 = 0)

\* C6 witness: a channel accepted 0,1,0 and a handler returned an error on the way.
C6_Witness ==
  \E id \in DOMAIN packets :
    /\ Len(onChannel(accepted, id)) = 3
    /\ reliableState[id] = waitForOne
    /\ \E i \in 1..Len(events) : events[i].id = id /\ events[i].ret = BOWLER_ERROR
    /\ \A i \in 1..Len(events) : events[i].ret # 2

\* C7: a frame whose id has no handler makes loop fail, invokes nothing, changes
\* no channel state and is answered with its own three header bytes and an
\* all-zero payload, whether the write succeeds or not.
C7_UnknownId ==
  [][(last'.op = "loop" /\ last'.data # NoFrame /\ last'.id \notin DOMAIN packets) =>
       /\ last'.ret = BOWLER_ERROR
       /\ last'.invoked = 0
       /\ reliableState' = reliableState
       /\ packets' = packets
       /\ Len(last'.wrote) = 1
       /\ \A i \in 1..HEADER_LENGTH : last'.wrote[1][i] = last'.data[i]
       /\ zeroPayload(last'.wrote[1])]_vars

\* C7 witness: the reply to an unknown id could not be written and loop failed.
C7_Witness ==
  /\ lastRead /\ last.id \notin DOMAIN packets
  /\ ~last.wrOk /\ last.ret = BOWLER_ERROR
  /\ getAckNum(last.data) = 1 /\ lastSeq = 2

\* C8: addPacket with an id that is in use fails and changes neither packets
\* nor reliableState.
C8_DuplicateId ==
  [][(last'.op = "addPacket" /\ last'.id \in DOMAIN packets) =>
       /\ last'.ret = BOWLER_ERROR
       /\ packets' = packets
       /\ reliableState' = reliableState]_vars

\* C8 witness: the id of a channel in waitForOne was registered again, in vain.
C8_Witness ==
  /\ last.op = "addPacket" /\ last.ret = BOWLER_ERROR
  /\ last.id \in DOMAIN packets /\ packets[last.id].reliable
  /\ reliableState[last.id] = waitForOne

\* Whether the k-th queued factory yields an id that is taken by then: by a
\* handler registered before the call, or by an earlier factory of the queue.
collides(pk, q, k) ==
  q[k].id \in DOMAIN pk \cup {q[j].id : j \in 1..(k - 1)}

\* The first colliding position of the queue, 0 when there is none.
firstCollision(pk, q) ==
  IF \E k \in 1..Len(q) : collides(pk, q, k)
    THEN CHOOSE k \in 1..Len(q) :
           collides(pk, q, k) /\ \A j \in 1..(k - 1) : ~collides(pk, q, j)
    ELSE 0

\* C9: addEnsuredPackets invokes the queued factories in queue order up to and
\* including the first one whose handler cannot be added, fails there, keeps
\* every handler it added before, and invokes no factory behind it; with no
\* such factory it adds them all and succeeds.
C9_DrainStopsAtFirstFailure ==
  [][last'.op = "addEnsuredPackets" =>
       LET q == ensuredPackets
           k == firstCollision(packets, q)
           n == IF k = 0 THEN Len(q) ELSE k - 1
       IN /\ last'.ret = IF k = 0 THEN 1 ELSE BOWLER_ERROR
          /\ last'.called = IF k = 0 THEN Len(q) ELSE k
          /\ DOMAIN packets' = DOMAIN packets \cup {q[j].id : j \in 1..n}
          /\ \A j \in 1..n : packets'[q[j].id] = q[j]
          /\ \A id \in DOMAIN packets : packets'[id] = packets[id]
          /\ \A j \in 1..n : q[j].reliable => reliableState'[q[j].id] = waitForZero]_vars

\* C9 witness: of three factories the first was registered, the second failed
\* and the third, whose id is free, was not invoked.
C9_Witness ==
  /\ last.op = "addEnsuredPackets" /\ last.ret = BOWLER_ERROR
  /\ Len(ensuredPackets) = 3 /\ last.called = 2
  /\ packets[ensuredPackets[1].id] = ensuredPackets[1]
  /\ ensuredPackets[3].id \notin DOMAIN packets

\* C10 (as claimed): no id without a handler has an entry in reliableState.
C10_NoStateWithoutHandler == DOMAIN reliableState \subseteq DOMAIN packets

\* Whether a transport operation failed in the last loop call.
lastTransportFailed ==
  /\ last.op = "loop"
  /\ \/ last.avail = "error"
     \/ last.avail = "data" /\ ~last.readOk
     \/ lastRead /\ ~last.wrOk

\* C11 (as claimed): a loop call in which the readiness check, the read or the
\* write of the reply failed returns BOWLER_ERROR, and a call that found no data
\* returns 1.
C11_TransportErrorReported ==
  /\ lastTransportFailed => last.ret = BOWLER_ERROR
  /\ (last.op = "loop" /\ last.avail \in {"nodata", "wouldblock"}) => last.ret = 1

\* C12 (as claimed): getAllPacketIDs returns exactly the registered
\* identifiers other than SERVER_MANAGEMENT_PACKET_ID, each once, in every
\* reachable state of the registry.
C12_ListIds ==
  last.op = "getAllPacketIDs" =>
    /\ ~last.threw
    /\ {last.ids[i] : i \in 1..Len(last.ids)}
         = DOMAIN packets \ {SERVER_MANAGEMENT_PACKET_ID}
    /\ Len(last.ids) = Cardinality(DOMAIN packets \ {SERVER_MANAGEMENT_PACKET_ID})

\* C13: a loop call that reads a frame for a registered handler that is not
\* reliable calls event() once whatever the sequence number, then writes that
\* one buffer back (its header as read) whatever event() returned, returns 1,
\* and leaves reliableState as it was.
C13_Unreliable ==
  [][(/\ last'.op = "loop"
      /\ last'.data # NoFrame
      /\ last'.id \in DOMAIN packets
      /\ ~packets[last'.id].reliable)
     => /\ last'.invoked = 1
        /\ Len(last'.wrote) = 1
        /\ getPacketId(last'.wrote[1]) = last'.id
        /\ getSeqNum(last'.wrote[1]) = getSeqNum(last'.data)
        /\ getAckNum(last'.wrote[1]) = getAckNum(last'.data)
        /\ last'.ret = 1
        /\ reliableState' = reliableState]_vars

\* C13 witness: an unreliable handler whose id still has a stale waitForOne
\* entry was called on sequence number 2, failed, and its buffer was written.
C13_Witness ==
  /\ lastKnown
  /\ ~packets[last.id].reliable
  /\ last.st = waitForOne
  /\ lastSeq = 2
  /\ last.evRet = BOWLER_ERROR
  /\ last.invoked = 1
  /\ Len(last.wrote) = 1

\* The last loop call accepted a frame on a reliable channel and the write of
\* its reply failed.
lastAcceptedUnwritten ==
  /\ lastReliable
  /\ last.invoked = 1
  /\ ~last.wrOk

\* The last loop call was a disconnection handled on the server management
\* channel, which keeps the channel in waitForZero.
lastReset ==
  /\ last.id = SERVER_MANAGEMENT_PACKET_ID
  /\ last.evRet = 2
  /\ last.st = waitForZero

\* A loop step that reads the frame of the previous loop call once more.
retransmitted == last'.op = "loop" /\ last'.data = last.data

\* C14: when the write of the reply to an accepted frame fails, the channel is
\* still in the state the transition table gives (waitForOne after a sequence-0
\* frame, waitForZero after a sequence-1 frame or a disconnection), and unless
\* the frame was such a disconnection a retransmission of it in the next loop
\* call does not reach event() again.
C14_WriteFailureKeepsTransition ==
  /\ [][(last'.op = "loop" /\ last'.invoked = 1 /\ ~last'.wrOk
          /\ last'.id \in DOMAIN packets /\ packets[last'.id].reliable)
        => reliableState'[last'.id] =
             (IF last'.st = waitForOne
                     \/ (last'.id = SERVER_MANAGEMENT_PACKET_ID /\ last'.evRet = 2)
                THEN waitForZero
                ELSE waitForOne)]_vars
  /\ [][(lastAcceptedUnwritten /\ ~lastReset /\ retransmitted)
        => last'.invoked = 0 /\ reliableState' = reliableState]_vars

\* C14 (as claimed): after a failed reply write the handler is never invoked
\* again for a retransmission of the accepted frame.
C14_Original ==
  [][(lastAcceptedUnwritten /\ retransmitted) => last'.invoked = 0]_vars

\* C14 witness: a sequence-0 frame was accepted, its reply could not be
\* written, and the channel is in waitForOne.
C14_Witness ==
  /\ lastAcceptedUnwritten
  /\ last.st = waitForZero
  /\ reliableState[last.id] = waitForOne

\* C15: a loop call that read a frame attempts exactly one write and calls
\* event() at most once, whichever branch handled the frame; a loop call that
\* read no frame (no data, failed readiness check, failed read) attempts no
\* write, calls no handler and changes no channel state.
C15_OneFrameOneWrite ==
  [][last'.op = "loop"
     => /\ last'.invoked \in {0, 1}
        /\ last'.data # NoFrame
             => /\ last'.avail = "data" /\ last'.readOk
                /\ Len(last'.wrote) = 1
        /\ last'.data = NoFrame
             => /\ last'.avail # "data" \/ ~last'.readOk
                /\ last'.wrote = <<>>
                /\ last'.invoked = 0
                /\ reliableState' = reliableState]_vars

\* C15 witness: the read failed while a reliable user channel was in
\* waitForOne; nothing was written and the channel is still in waitForOne.
C15_Witness ==
  /\ last.op = "loop"
  /\ last.avail = "data"
  /\ ~last.readOk
  /\ last.wrote = <<>>
  /\ last.invoked = 0
  /\ \E id \in DOMAIN packets \ {SERVER_MANAGEMENT_PACKET_ID} :
       packets[id].reliable /\ stateAt(reliableState, id) = waitForOne

\* C16: every registered reliable handler has an RDT state, which is
\* waitForZero or waitForOne; and a successful addPacket of a reliable handler
\* leaves its channel in waitForZero, whatever entry an earlier registration of
\* the id left behind.
C16_TwoStates ==
  /\ [](\A id \in DOMAIN packets :
          packets[id].reliable
            => /\ id \in DOMAIN reliableState
               /\ reliableState[id] \in {waitForZero, waitForOne})
  /\ [][(last'.op = "addPacket" /\ last'.ret = 1 /\ packets'[last'.id].reliable)
        => reliableState'[last'.id] = waitForZero]_vars

\* C16 witness: a reliable handler was registered under an id whose earlier
\* registration had been removed in waitForOne, and its channel is in waitForZero.
C16_Witness ==
  /\ last.op = "addPacket"
  /\ last.ret = 1
  /\ last.st = waitForOne
  /\ last.id # SERVER_MANAGEMENT_PACKET_ID
  /\ packets[last.id].reliable
  /\ reliableState[last.id] = waitForZero

\* The sender's frame number k has reached event().
handledFrame(k) ==
  \E i \in 1..Len(events) : events[i].id = snd.id /\ events[i].tag = k

\* The server management handler has reported a disconnection.
resetSeen ==
  \E i \in 1..Len(events) :
    events[i].id = SERVER_MANAGEMENT_PACKET_ID /\ events[i].ret = 2

\* C17: with loop called again and again, a sender that keeps retransmitting
\* and a transport that does not lose every copy for ever, every frame the
\* sender starts to send is eventually handled and acknowledged to the sender,
\* as long as the server management handler reports no disconnection.
C17_EventuallyDelivered ==
  \A k \in 1..MaxFrames :
    (snd.acked = k - 1) ~> (resetSeen \/ (snd.acked >= k /\ handledFrame(k)))

\* C17 (as claimed): the same without the condition on disconnections.
C17_Original ==
  \A k \in 1..MaxFrames :
    (snd.acked = k - 1) ~> (snd.acked >= k /\ handledFrame(k))

\* C17 witness: without a disconnection, every frame of the sender was handled
\* and acknowledged.
C17_Witness ==
  /\ ~resetSeen
  /\ snd.acked = MaxFrames
  /\ \A k \in 1..MaxFrames : handledFrame(k)

\* C18: a loop call that reads a frame for id A leaves the RDT state of every
\* other id as it was (no entry appears, disappears or changes), also when A is
\* the server management id and its handler reports a disconnection.
C18_ChannelsIndependent ==
  [][(last'.op = "loop" /\ last'.data # NoFrame)
     => \A id \in (DOMAIN reliableState \cup DOMAIN reliableState') \ {last'.id} :
          /\ id \in DOMAIN reliableState
          /\ id \in DOMAIN reliableState'
          /\ reliableState'[id] = reliableState[id]]_vars

\* C18 witness: a disconnection was handled on the server management channel
\* while a reliable user channel was, and still is, in waitForOne.
C18_Witness ==
  /\ lastReliable
  /\ lastReset
  /\ last.invoked = 1
  /\ reliableState[SERVER_MANAGEMENT_PACKET_ID] = waitForZero
  /\ \E id \in DOMAIN packets \ {SERVER_MANAGEMENT_PACKET_ID} :
       packets[id].reliable /\ stateAt(reliableState, id) = waitForOne

\* C19: addEnsuredPackets leaves the queue as it was; called right after an
\* addEnsuredPackets that succeeded on a non-empty queue, it invokes the first
\* factory again and no other, fails with BOWLER_ERROR, and changes neither the
\* registry nor any RDT state.
C19_DrainKeepsQueue ==
  /\ [][last'.op = "addEnsuredPackets" => ensuredPackets' = ensuredPackets]_vars
  /\ [][(/\ last.op = "addEnsuredPackets"
         /\ last.ret = 1
         /\ ensuredPackets # <<>>
         /\ last'.op = "addEnsuredPackets")
        => /\ last'.ret = BOWLER_ERROR
           /\ last'.called = 1
           /\ packets' = packets
           /\ reliableState' = reliableState]_vars

\* C19 witness: a drain right after a successful drain of a queue of two
\* factories failed on the first factory.
C19_Witness ==
  /\ last.op = "addEnsuredPackets"
  /\ last.st = "drained"
  /\ last.ret = BOWLER_ERROR
  /\ last.called = 1
  /\ Len(ensuredPackets) >= 2
  /\ \A j \in 1..Len(ensuredPackets) : ensuredPackets[j].id \in DOMAIN packets

\* C20 (as claimed): the server management handler is registered in every
\* reachable state.
C20_ManagementRegistered == SERVER_MANAGEMENT_PACKET_ID \in DOMAIN packets

====
